---- MODULE Spec2Model ----
(***************************************************************************)
(* Playback coordinator of the piano-roll workbench                        *)
(* (src/src/components/pianoRoll/playback/usePlaybackCoordinator.ts).      *)
(*                                                                         *)
(* Musical positions are counted in sixteenths of a quarter note (the      *)
(* code's 0.0625 minimum duration is one unit); transport times are        *)
(* counted in sixteenths of a millisecond, so that with an integral        *)
(* number of milliseconds per quarter note every product of the code is    *)
(* an exact integer: units * QuarterMs is a time in these ticks.           *)
(***************************************************************************)
EXTENDS Integers, Sequences, FiniteSets, TLC

\* ------------------------------------------------------------------ bounds
\* play calls in flight at once, instrument objects alive per roll, calls the
\* application makes in a run, and the quarter notes a note position and a
\* queue start of the single-note rolls range over
MaxCalls == 2
MaxInstr == 2
MaxOps == 4
MaxPos == 4
MaxStart == 4

\* ------------------------------------------------------- program constants
SixteenthsPerQuarter == 16
Bpm == 120
StopGraceMs == 100
LoopTailMs == 20
LoopGuardMs == 1
QueueLoopCap == 10

RollIds == {"A", "B"}
NoRoll == "none"

Max(a, b) == IF a >= b THEN a ELSE b
Min(a, b) == IF a <= b THEN a ELSE b

\* milliseconds to ticks, and the quarter note in milliseconds (60 / bpm s)
Ticks(ms) == ms * SixteenthsPerQuarter
quarterNoteSeconds == 60000 \div Bpm

\* ------------------------------------------------------------ timing math
Note(p, d) == [position |-> p, duration |-> d]

NoteEnd(n) == n.position + n.duration

\* a filter that keeps the notes ending at the start position
IsActiveOrEndsAt(n, start) == NoteEnd(n) >= start

\* note.position + note.duration > playbackStartPosition
IsActive(n, start) == NoteEnd(n) > start

ActiveNotes(notes, start) == SelectSeq(notes, LAMBDA n : IsActive(n, start))

\* an offset that goes below 0 for a note that starts before the start position
OffsetSigned(n, start) == n.position - start

\* Math.max(0, note.position - playbackStartPosition)
Offset(n, start) == Max(0, n.position - start)

RECURSIVE SeqMax(_, _)
SeqMax(s, acc) == IF s = <<>> THEN acc ELSE SeqMax(Tail(s), Max(acc, Head(s)))

\* Math.max(...activeNotes.map(n => n.note.position + n.note.duration))
MaxEndQ(active) == SeqMax([i \in 1..Len(active) |-> NoteEnd(active[i])], 0)

\* a ceiling that rounds a whole number of quarter notes up as well
CeilQuartersUp(u) ==
    IF u <= 0 THEN 0 ELSE u \div SixteenthsPerQuarter + 1

\* Math.ceil of a span given in sixteenths, in whole quarter notes
CeilQuarters(u) ==
    IF u <= 0 THEN 0
    ELSE (u + SixteenthsPerQuarter - 1) \div SixteenthsPerQuarter

\* Math.max(1, Math.ceil(maxEndQ - startQ)), in quarter notes
LoopLength(active, start) == Max(1, CeilQuarters(MaxEndQ(active) - start))

\* time: entry.offset * quarterSeconds
EventTime(n, start) == Offset(n, start) * quarterNoteSeconds

\* duration: Math.max(entry.note.duration, 0.0625) * quarterSeconds
EventDuration(n) == Max(n.duration, 1) * quarterNoteSeconds

ScheduledEvents(active, start) ==
    [i \in 1..Len(active) |->
        [time |-> EventTime(active[i], start), duration |-> EventDuration(active[i])]]

\* scheduledEvents.reduce((end, e) => Math.max(end, e.time + e.duration), 0)
PlaybackDuration(events) ==
    SeqMax([i \in 1..Len(events) |-> events[i].time + events[i].duration], 0)

\* loopLength * quarterSeconds
LoopLenSec(loopLength) == loopLength * SixteenthsPerQuarter * quarterNoteSeconds

\* ------------------------------------------------------------ loop configs
LoopCfg(e, inf, n) == [enabled |-> e, infinite |-> inf, count |-> n]

\* loopConfigs.get(id) of an id with no entry
NoCfg == LoopCfg(FALSE, FALSE, -1)

\* registerRoll's { enabled: false, count: 1 }
DefaultCfg == LoopCfg(FALSE, FALSE, 1)

\* the configs the roll owners pass to setLoop: a finite count, Infinity, and a
\* count above the queue cap
LoopChoices ==
    { LoopCfg(TRUE, FALSE, 3), LoopCfg(TRUE, TRUE, 0), LoopCfg(TRUE, FALSE, 12) }

\* loopConfig.count || 1
CountOr1(cfg) == IF cfg.count <= 0 THEN 1 ELSE cfg.count

\* effectiveLoopCount of playRollInternal: [inf, n]
EffectiveLoopCount(cfg, queueMode) ==
    IF ~cfg.enabled THEN [inf |-> FALSE, n |-> 1]
    ELSE IF queueMode
         THEN [inf |-> FALSE,
               n |-> IF cfg.infinite THEN QueueLoopCap ELSE Min(CountOr1(cfg), QueueLoopCap)]
         ELSE IF cfg.infinite THEN [inf |-> TRUE, n |-> 0]
              ELSE [inf |-> FALSE, n |-> CountOr1(cfg)]

\* effectiveLoopCount of playQueue
QueueLoopCount(cfg) ==
    IF ~cfg.enabled THEN [inf |-> FALSE, n |-> 1]
    ELSE [inf |-> FALSE,
          n |-> IF cfg.infinite THEN QueueLoopCap ELSE Min(CountOr1(cfg), QueueLoopCap)]

\* part.loop: effectiveLoopCount > 1 || effectiveLoopCount === Infinity
PartLoops(eff) == eff.inf \/ eff.n > 1

\* totalDuration, for a finite effective loop count
TotalDuration(active, start, eff) ==
    IF PartLoops(eff) THEN LoopLenSec(LoopLength(active, start)) * eff.n
    ELSE PlaybackDuration(ScheduledEvents(active, start))

\* the end of the content of one pass, whatever the loop count
ContentEndOfOnePass(active, start, eff) ==
    PlaybackDuration(ScheduledEvents(active, start))

\* contentEnd
ContentEnd(active, start, eff) ==
    IF PartLoops(eff)
    THEN PlaybackDuration(ScheduledEvents(active, start))
         + (eff.n - 1) * LoopLenSec(LoopLength(active, start))
    ELSE PlaybackDuration(ScheduledEvents(active, start))

\* a deadline with the tail of a looping session whatever the loop count
StopAtWithTail(active, start, eff) ==
    TotalDuration(active, start, eff) + Ticks(LoopTailMs)

\* a deadline measured from the end of the first pass
StopAtAfterFirstPass(active, start, eff) ==
    PlaybackDuration(ScheduledEvents(active, start)) + Ticks(LoopTailMs)

\* stopAt, for a finite effective loop count (Infinity schedules nothing)
StopAt(active, start, eff) ==
    IF PartLoops(eff)
    THEN Min(ContentEnd(active, start, eff) + Ticks(LoopTailMs),
             TotalDuration(active, start, eff) - Ticks(LoopGuardMs))
    ELSE TotalDuration(active, start, eff) + Ticks(StopGraceMs)

\* --------------------------------------------------------------- the rolls
\* What a roll's owner answers to getNotes() and getQueueStart().
ProfileOf(name) ==
    CASE name = "drum" ->
           [notes |-> <<Note(0, 16), Note(16, 16)>>, queueStart |-> 0]
      [] name = "short" ->
           [notes |-> <<Note(0, 8)>>, queueStart |-> 0]
      [] name = "late" ->
           [notes |-> <<Note(64, 8)>>, queueStart |-> 16]
      [] name = "past" ->
           [notes |-> <<Note(0, 16)>>, queueStart |-> 16]
      [] name = "long" ->
           [notes |-> <<Note(0, 192)>>, queueStart |-> 0]
      [] OTHER ->
           [notes |-> <<>>, queueStart |-> 0]

Scenarios ==
    { [A |-> ProfileOf("drum"), B |-> ProfileOf("late")],
      [A |-> ProfileOf("empty"), B |-> ProfileOf("past")],
      [A |-> ProfileOf("short"), B |-> ProfileOf("long")] }

\* the ids lists the callers pass to playQueue
QueueArgs == { <<"A", "B">>, <<"A", "A">> }

\* elapsed quarter-note positions an animation frame can read off the transport
ElapsedChoices == {24, 40}

\* ------------------------------------------------------------------- state
VARIABLES
    profile,                \* roll id -> what its owner holds (notes, queue start)
    playhead,               \* roll id -> last value given to setLivePlayhead (-1: none)
    rolls,                  \* roll id -> TRUE when the registry holds a registration
    everRegistered,         \* roll id -> TRUE once registerRoll returned an unregister fn
    instruments,            \* roll id -> instrument object, 0: not in the map
    instr,                  \* instrument object -> "unused" | "loading" | "loaded"
    disposed,               \* the instrument objects dispose() was called on
    loopConfigs,            \* roll id -> loop config, NoCfg: not in the map
    nOps,                   \* calls made to the coordinator so far
    isPlaying,
    currentRollId,
    queueState,
    parts,                  \* the Tone.Parts created and not disposed, each with the
                            \* loop count its deadline was computed from (0: Infinity)
    rafTasks,               \* the animation frames requested and not yet run
    stopCbs,                \* the scheduleOnce callbacks pending on the transport
    stopScheduleId,         \* call whose callback the stop handle names, 0: null
    playbackStartPositions, \* roll id -> start position, -1: not in the map
    currentQueueIds,
    isQueueMode,
    tstate,                 \* Tone.Transport: "stopped" | "started"
    calls,                  \* play call -> its kind, position and captured locals
    fx                      \* what the last step did: operation, playhead calls, transport
                            \* calls, instruments disposed, instruments dropped undisposed,
                            \* registration replaced

mapVars == <<rolls, everRegistered, instruments, loopConfigs>>
registryVars == <<mapVars, instr, disposed>>
sessVars ==
    <<isPlaying, currentRollId, queueState, parts, rafTasks, stopCbs,
      stopScheduleId, playbackStartPositions, tstate, playhead>>
modeVars == <<currentQueueIds, isQueueMode>>
vars == <<profile, nOps, registryVars, sessVars, modeVars, calls, fx>>

CallIds == 1..MaxCalls
InstrIds == 1..(MaxInstr * Cardinality(RollIds))

Range(s) == {s[i] : i \in 1..Len(s)}

\* roll.getQueueStart() and roll.getNotes()
getQueueStart(r) == profile[r].queueStart
getNotes(r) == profile[r].notes

NoCall ==
    [kind |-> "none", pc |-> "none", roll |-> NoRoll, ids |-> <<>>, instr |-> 0,
     loop |-> NoCfg, wlist |-> <<>>, widx |-> 0, prev |-> NoRoll, own |-> <<>>]

\* a call that has run to its end leaves nothing behind
Done(call) == NoCall

\* a playRoll call whose promise waits for the stop callback
Pending(call) == [NoCall EXCEPT !.kind = "roll", !.pc = "pending", !.roll = call.roll]

NoQueueState == [set |-> FALSE, ids |-> <<>>]

Fx(op, c, heads, tops) ==
    [op |-> op, call |-> c, heads |-> heads, tops |-> tops, fired |-> {},
     prev |-> NoRoll, disposed |-> {}, dropped |-> {}, replaced |-> NoRoll]

\* currentParts, as the parts the map holds
CurrentParts == {p \in parts : p.inMap}

Init ==
    /\ profile \in Scenarios
    /\ playhead = [r \in RollIds |-> -1]
    /\ rolls = [r \in RollIds |-> FALSE]
    /\ everRegistered = [r \in RollIds |-> FALSE]
    /\ instruments = [r \in RollIds |-> 0]
    /\ instr = [i \in InstrIds |-> "unused"]
    /\ disposed = {}
    /\ loopConfigs = [r \in RollIds |-> NoCfg]
    /\ nOps = 0
    /\ isPlaying = FALSE
    /\ currentRollId = NoRoll
    /\ queueState = NoQueueState
    /\ parts = {}
    /\ rafTasks = {}
    /\ stopCbs = {}
    /\ stopScheduleId = 0
    /\ playbackStartPositions = [r \in RollIds |-> -1]
    /\ currentQueueIds = <<>>
    /\ isQueueMode = FALSE
    /\ tstate = "stopped"
    /\ calls = [c \in CallIds |-> NoCall]
    /\ fx = Fx("init", 0, {}, {})

\* ------------------------------------------------- identities and their reuse
\* An instrument object or a play call that nothing refers to any more cannot
\* be told from a new one, so its number is given to the next one created.
\* An object is named by a number of its roll's own range.
Referenced(i, ins, cs, ps) ==
    \/ \E r \in RollIds : ins[r] = i
    \/ \E c \in CallIds : cs[c].pc = "await" /\ cs[c].instr = i
    \/ \E p \in ps : p.instr = i

InstrInUse(i) == Referenced(i, instruments, calls, parts)

RollIndex(r) == IF r = "A" THEN 0 ELSE 1

FreeInstr(r) ==
    {i \in InstrIds :
        /\ (i - 1) \div MaxInstr = RollIndex(r)
        /\ (~InstrInUse(i) \/ (instruments[r] = i /\
                ~Referenced(i, [x \in RollIds |-> 0], calls, parts)))}

NewInstr(r) == CHOOSE i \in FreeInstr(r) : \A j \in FreeInstr(r) : i <= j

\* the instrument table once the objects nothing refers to are forgotten;
\* tbl and dis are the table and the disposed set the step computed, and the
\* references are read off the step's new maps, calls and parts
Collect(tbl, dis) ==
    /\ instr' = [i \in InstrIds |->
            IF Referenced(i, instruments', calls', parts') THEN tbl[i] ELSE "unused"]
    /\ disposed' = {i \in dis : Referenced(i, instruments', calls', parts')}

\* a call the application makes to the coordinator; a run makes MaxOps of them
Counted == nOps < MaxOps /\ nOps' = nOps + 1

\* --------------------------------------------------- registry, instruments
\* createInstrument(kind): a sampler still has to load, a synth is ready
CreatedState(kind) == IF kind = "piano" THEN "loading" ELSE "loaded"

\* the instrument objects the map holds for the ids
MapInstr(ids) == {instruments[r] : r \in {x \in ids : instruments[x] # 0}}

\* disposeInstrument(id): the instrument objects disposed after it
DisposedAfter(id) == disposed \cup MapInstr({id})

\* a registerRoll that disposes the instrument the map holds before replacing it
registerRollDisposing(r) ==
    /\ Counted
    /\ FreeInstr(r) # {}
    /\ rolls' = [rolls EXCEPT ![r] = TRUE]
    /\ everRegistered' = [everRegistered EXCEPT ![r] = TRUE]
    /\ instruments' = [instruments EXCEPT ![r] = NewInstr(r)]
    /\ loopConfigs' = [loopConfigs EXCEPT ![r] = DefaultCfg]
    /\ fx' = [Fx("registerRoll", 0, {}, {}) EXCEPT !.disposed = MapInstr({r})]
    /\ UNCHANGED <<profile, sessVars, modeVars, calls>>
    /\ Collect([instr EXCEPT ![NewInstr(r)] = CreatedState("piano")],
               DisposedAfter(r) \ {NewInstr(r)})

registerRoll(r) ==
    /\ Counted
    /\ FreeInstr(r) # {}
    /\ rolls' = [rolls EXCEPT ![r] = TRUE]
    /\ everRegistered' = [everRegistered EXCEPT ![r] = TRUE]
    /\ instruments' = [instruments EXCEPT ![r] = NewInstr(r)]
    /\ loopConfigs' = [loopConfigs EXCEPT ![r] = DefaultCfg]
    /\ fx' = [Fx("registerRoll", 0, {}, {}) EXCEPT
                !.dropped = MapInstr({r}),
                !.replaced = IF rolls[r] THEN r ELSE NoRoll]
    /\ UNCHANGED <<profile, sessVars, modeVars, calls>>
    /\ Collect([instr EXCEPT ![NewInstr(r)] = CreatedState("piano")],
               disposed \ {NewInstr(r)})

\* an unregister that deletes the registration and nothing else
unregisterRegistrationOnly(r) ==
    /\ Counted
    /\ everRegistered[r]
    /\ rolls' = [rolls EXCEPT ![r] = FALSE]
    /\ fx' = Fx("unregister", 0, {}, {})
    /\ UNCHANGED <<profile, everRegistered, instruments, loopConfigs, instr, disposed,
                   sessVars, modeVars, calls>>

\* the function registerRoll returned, for any registration of r made so far
unregister(r) ==
    /\ Counted
    /\ everRegistered[r]
    /\ rolls' = [rolls EXCEPT ![r] = FALSE]
    /\ instruments' = [instruments EXCEPT ![r] = 0]
    /\ loopConfigs' = [loopConfigs EXCEPT ![r] = NoCfg]
    /\ fx' = [Fx("unregister", 0, {}, {}) EXCEPT !.disposed = MapInstr({r})]
    /\ UNCHANGED <<profile, everRegistered, sessVars, modeVars, calls>>
    /\ Collect(instr, DisposedAfter(r))

setInstrument(r, kind) ==
    /\ Counted
    /\ FreeInstr(r) # {}
    /\ instruments' = [instruments EXCEPT ![r] = NewInstr(r)]
    /\ fx' = [Fx("setInstrument", 0, {}, {}) EXCEPT !.disposed = MapInstr({r})]
    /\ UNCHANGED <<profile, rolls, everRegistered, loopConfigs,
                   sessVars, modeVars, calls>>
    /\ Collect([instr EXCEPT ![NewInstr(r)] = CreatedState(kind)],
               DisposedAfter(r) \ {NewInstr(r)})

setLoop(r, cfg) ==
    /\ Counted
    /\ loopConfigs' = [loopConfigs EXCEPT ![r] = cfg]
    /\ fx' = Fx("setLoop", 0, {}, {})
    /\ UNCHANGED <<profile, rolls, everRegistered, instruments, instr, disposed,
                   sessVars, modeVars, calls>>

\* the sampler's buffers finish loading
samplerLoaded(i) ==
    /\ UNCHANGED nOps
    /\ instr[i] = "loading"
    /\ instr' = [instr EXCEPT ![i] = "loaded"]
    /\ fx' = Fx("samplerLoaded", 0, {}, {})
    /\ UNCHANGED <<profile, mapVars, disposed, sessVars, modeVars, calls>>

\* a reset that looks at currentRollId in queue mode too
StopHeadsOfCurrentRoll(reset, qmode, qids) ==
    IF ~reset THEN {}
    ELSE IF currentRollId # NoRoll /\ rolls[currentRollId] THEN {currentRollId}
    ELSE {}

\* a reset that stopInternal(false) makes too
StopHeadsWithoutFlag(reset, qmode, qids) ==
    IF qmode THEN {r \in Range(qids) : rolls[r]}
    ELSE IF currentRollId # NoRoll /\ rolls[currentRollId] THEN {currentRollId}
    ELSE {}

\* a stopInternal without its early return
StopNeverNoop == FALSE

\* ------------------------------------------------------------ stopInternal
\* the rolls stopInternal(resetToQueue) calls setLivePlayhead(getQueueStart()) on
StopHeads(reset, qmode, qids) ==
    IF ~reset THEN {}
    ELSE IF qmode THEN {r \in Range(qids) : rolls[r]}
    ELSE IF currentRollId # NoRoll /\ rolls[currentRollId] THEN {currentRollId}
    ELSE {}

\* stopInternal returns at once: !isPlaying.value && currentParts.size === 0
StopIsNoop == ~isPlaying /\ CurrentParts = {}

\* clearTransportSchedules(): Transport.cancel() takes every event off the
\* timeline, the triggers of the parts still scheduled there included; a part
\* taken off the timeline that the map does not hold is out of anyone's reach
Cancelled(ps) == {[p EXCEPT !.sched = FALSE] : p \in {q \in ps : q.inMap}}

\* clearAnimation(): cancelAnimationFrame on every id rafIds holds
AnimationsCleared(ts) == {t \in ts : ~t.held}

\* a stop callback taken off the timeline never runs, so the promise that
\* playRollInternal returned for it never settles
Orphaned(cs) ==
    [c \in CallIds |->
        IF cs[c].pc = "pending" THEN NoCall ELSE cs[c]]

\* stopInternal(resetToQueue), reading the mode flags as qmode and qids
stopInternal(reset, qmode, qids) ==
    IF StopIsNoop THEN UNCHANGED sessVars
    ELSE /\ tstate' = "stopped"
         /\ stopCbs' = {}
         /\ stopScheduleId' = 0
         /\ parts' = Cancelled(parts \ CurrentParts)
         /\ rafTasks' = AnimationsCleared(rafTasks)
         /\ currentRollId' = NoRoll
         /\ isPlaying' = FALSE
         /\ playhead' = [r \in RollIds |->
                IF r \in StopHeads(reset, qmode, qids) THEN getQueueStart(r)
                ELSE playhead[r]]
         /\ playbackStartPositions' = [r \in RollIds |-> -1]
         /\ queueState' = NoQueueState

\* the play calls once stopInternal has run
CallsAfterStop == IF StopIsNoop THEN calls ELSE Orphaned(calls)

StopFx(op, c, reset, qmode, qids) ==
    IF StopIsNoop THEN Fx(op, c, {}, {})
    ELSE Fx(op, c, StopHeads(reset, qmode, qids), {"stop", "cancel"})

\* stop(): the mode flags are cleared, then stopInternal(true) runs
stop ==
    /\ Counted
    /\ isQueueMode' = FALSE
    /\ currentQueueIds' = <<>>
    /\ stopInternal(TRUE, FALSE, <<>>)
    /\ calls' = CallsAfterStop
    /\ fx' = StopFx("stop", 0, TRUE, FALSE, <<>>)
    /\ UNCHANGED <<profile, mapVars>>
    /\ Collect(instr, disposed)

\* dispose(): stop(), then every instrument disposed and the three maps cleared
dispose ==
    /\ Counted
    /\ isQueueMode' = FALSE
    /\ currentQueueIds' = <<>>
    /\ stopInternal(TRUE, FALSE, <<>>)
    /\ calls' = CallsAfterStop
    /\ instruments' = [r \in RollIds |-> 0]
    /\ rolls' = [r \in RollIds |-> FALSE]
    /\ loopConfigs' = [r \in RollIds |-> NoCfg]
    /\ fx' = [StopFx("dispose", 0, TRUE, FALSE, <<>>) EXCEPT !.disposed = MapInstr(RollIds)]
    /\ UNCHANGED <<profile, everRegistered>>
    /\ Collect(instr, disposed \cup MapInstr(RollIds))

\* ---------------------------------------------------------------- playRoll
\* the number a play call gets: the lowest one that, after the soft stop the
\* call starts with, no suspended call and no part, frame or callback bears
FreeAfterSoftStop ==
    LET ps == IF isPlaying THEN parts \ CurrentParts ELSE parts
        ts == IF isPlaying THEN AnimationsCleared(rafTasks) ELSE rafTasks
        cbs == IF isPlaying THEN {} ELSE stopCbs
        sid == IF isPlaying THEN 0 ELSE stopScheduleId
    IN {c \in CallIds :
          /\ calls[c].pc # "await"
          /\ \A p \in ps : p.call # c
          /\ \A t \in ts : t.call # c
          /\ \A cb \in cbs : cb.call # c
          /\ sid # c}

NextCall == CHOOSE c \in FreeAfterSoftStop : \A d \in FreeAfterSoftStop : c <= d

\* a play call that leaves the playing session as it is
softStopSkipped == UNCHANGED sessVars

\* the soft stop of a play call: stopInternal(false) when a session is playing
softStop ==
    IF isPlaying
    THEN stopInternal(FALSE, isQueueMode, currentQueueIds)
    ELSE UNCHANGED sessVars

SoftStopFx(op, c) ==
    IF isPlaying THEN StopFx(op, c, FALSE, isQueueMode, currentQueueIds)
    ELSE Fx(op, c, {}, {})

CallsAfterSoftStop == IF isPlaying THEN CallsAfterStop ELSE calls

\* a playRoll that goes on to its awaits whatever its lookups return
playRollUnchecked(r) ==
    /\ Counted
    /\ FreeAfterSoftStop # {}
    /\ softStop
    /\ isQueueMode' = FALSE
    /\ currentQueueIds' = <<>>
    /\ calls' = [CallsAfterSoftStop EXCEPT ![NextCall] =
          [NoCall EXCEPT
              !.kind = "roll", !.pc = "await", !.roll = r,
              !.instr = instruments[r], !.loop = loopConfigs[r],
              !.prev = IF isPlaying THEN currentRollId ELSE NoRoll]]
    /\ fx' = SoftStopFx("playRoll", NextCall)
    /\ UNCHANGED <<profile, mapVars>>
    /\ Collect(instr, disposed)

\* playRoll(id) up to the first await of playRollInternal: the soft stop, the
\* mode flags, and the lookups of lines 167-171
playRoll(r) ==
    /\ Counted
    /\ FreeAfterSoftStop # {}
    /\ softStop
    /\ isQueueMode' = FALSE
    /\ currentQueueIds' = <<>>
    /\ calls' = [CallsAfterSoftStop EXCEPT ![NextCall] =
          LET call == [NoCall EXCEPT
                          !.kind = "roll", !.pc = "await", !.roll = r,
                          !.instr = instruments[r], !.loop = loopConfigs[r],
                          !.prev = IF isPlaying THEN currentRollId ELSE NoRoll]
          IN IF ~rolls[r] \/ instruments[r] = 0 THEN Done(call) ELSE call]
    /\ fx' = SoftStopFx("playRoll", NextCall)
    /\ UNCHANGED <<profile, mapVars>>
    /\ Collect(instr, disposed)

\* scheduleAnimation(rollId, loopLength): the frame requested for the roll takes
\* the roll's entry of rafIds; a frame requested earlier stays requested
Animated(ts, task) ==
    IF ~rolls[task.roll] THEN ts
    ELSE {[t EXCEPT !.held = t.held /\ t.roll # task.roll] : t \in ts} \cup {task}

\* playRollInternal from line 176 on, once Tone.start() and the readiness of
\* the instrument captured at line 168 have resolved
playRollResume(c) ==
    /\ UNCHANGED nOps
    /\ calls[c].kind = "roll"
    /\ calls[c].pc = "await"
    /\ instr[calls[c].instr] = "loaded"
    /\ LET r == calls[c].roll
           pos == getQueueStart(r)
           active == ActiveNotes(getNotes(r), pos)
           eff == EffectiveLoopCount(calls[c].loop, isQueueMode)
           loops == PartLoops(eff)
           part == [call |-> c, idx |-> 1, roll |-> r, instr |-> calls[c].instr,
                    loop |-> loops, count |-> IF eff.inf THEN 0 ELSE eff.n,
                    loopEnd |-> IF loops THEN LoopLenSec(LoopLength(active, pos)) ELSE 0,
                    events |-> ScheduledEvents(active, pos),
                    sched |-> TRUE, inMap |-> TRUE]
           task == [call |-> c, idx |-> 1, roll |-> r, start |-> pos,
                    loopLength |-> IF loops THEN LoopLength(active, pos) ELSE 0,
                    held |-> TRUE]
       IN /\ playbackStartPositions' = [playbackStartPositions EXCEPT ![r] = pos]
          /\ playhead' = [playhead EXCEPT ![r] = pos]
          /\ IF active = <<>>
             THEN /\ calls' = [calls EXCEPT ![c] = Done(calls[c])]
                  /\ fx' = Fx("playRollResume", c, {r}, {})
                  /\ UNCHANGED <<isPlaying, currentRollId, queueState, parts,
                                 rafTasks, stopCbs, stopScheduleId, tstate>>
             ELSE /\ parts' = Cancelled({p \in parts : ~(p.inMap /\ p.roll = r)})
                                \cup {part}
                  /\ stopCbs' = IF eff.inf THEN {}
                                ELSE {[call |-> c, kind |-> "roll", roll |-> r,
                                       ids |-> <<>>, loops |-> loops,
                                       at |-> StopAt(active, pos, eff)]}
                  /\ stopScheduleId' = IF eff.inf THEN 0 ELSE c
                  /\ tstate' = "started"
                  /\ currentRollId' = r
                  /\ isPlaying' = TRUE
                  /\ rafTasks' = Animated(rafTasks, task)
                  /\ calls' = [Orphaned(calls) EXCEPT ![c] =
                        IF eff.inf THEN Done(calls[c]) ELSE Pending(calls[c])]
                  /\ fx' = [Fx("playRollResume", c, {r}, {"cancel", "stop", "start"})
                                EXCEPT !.prev = calls[c].prev]
                  /\ UNCHANGED queueState
    /\ UNCHANGED <<profile, mapVars, modeVars>>
    /\ Collect(instr, disposed)

\* --------------------------------------------------------------- playQueue
\* ids.filter(id => rolls.has(id))
Registered(ids) == SelectSeq(ids, LAMBDA id : rolls[id])

\* playQueue(ids) up to its first await: the soft stop, the mode flags, the
\* filter on the registered ids and the return on an empty list
playQueue(ids) ==
    /\ Counted
    /\ FreeAfterSoftStop # {}
    /\ softStop
    /\ isQueueMode' = TRUE
    /\ currentQueueIds' = Registered(ids)
    /\ calls' = [CallsAfterSoftStop EXCEPT ![NextCall] =
          [NoCall EXCEPT
              !.kind = IF Registered(ids) = <<>> THEN "none" ELSE "queue",
              !.pc = IF Registered(ids) = <<>> THEN "none" ELSE "await",
              !.ids = IF Registered(ids) = <<>> THEN <<>> ELSE ids,
              !.own = Registered(ids)]]
    /\ fx' = SoftStopFx("playQueue", NextCall)
    /\ UNCHANGED <<profile, mapVars>>
    /\ Collect(instr, disposed)

\* the list the readiness loop of lines 341-344 walks: currentQueueIds as it is
\* when Tone.start() resolves (widx = 0 until then)
WaitList(c) == IF calls[c].widx = 0 THEN currentQueueIds ELSE calls[c].wlist

\* the readiness loop suspends at the first index from i on whose instrument is
\* a sampler that has not loaded; Len + 1 when there is none
RECURSIVE FirstUnready(_, _)
FirstUnready(wl, i) ==
    IF i > Len(wl) THEN i
    ELSE IF instruments[wl[i]] # 0 /\ instr[instruments[wl[i]]] = "loading" THEN i
    ELSE FirstUnready(wl, i + 1)

\* the await the call is suspended at has resolved
QueueCanGoOn(c) ==
    /\ calls[c].kind = "queue"
    /\ calls[c].pc = "await"
    /\ IF calls[c].widx = 0 THEN TRUE ELSE instr[calls[c].instr] = "loaded"

QueueNextWait(c) ==
    FirstUnready(WaitList(c), IF calls[c].widx = 0 THEN 1 ELSE calls[c].widx + 1)

\* the call goes on to the next instrument that is not ready and suspends there
playQueueAwait(c) ==
    /\ UNCHANGED nOps
    /\ QueueCanGoOn(c)
    /\ QueueNextWait(c) <= Len(WaitList(c))
    /\ calls' = [calls EXCEPT
            ![c].wlist = WaitList(c),
            ![c].widx = QueueNextWait(c),
            ![c].instr = instruments[WaitList(c)[QueueNextWait(c)]]]
    /\ fx' = Fx("playQueueAwait", c, {}, {})
    /\ UNCHANGED <<profile, mapVars, sessVars, modeVars>>
    /\ Collect(instr, disposed)

\* one turn of the loop of lines 349-420 for the roll at index i of qids
QueueTurn(c, qids, i, acc) ==
    LET r == qids[i]
        pos == getQueueStart(r)
        active == ActiveNotes(getNotes(r), pos)
        eff == QueueLoopCount(loopConfigs[r])
        loops == PartLoops(eff)
        part == [call |-> c, idx |-> i, roll |-> r, instr |-> instruments[r],
                 loop |-> loops, count |-> eff.n,
                 loopEnd |-> IF loops THEN LoopLenSec(LoopLength(active, pos)) ELSE 0,
                 events |-> ScheduledEvents(active, pos),
                 sched |-> TRUE, inMap |-> TRUE]
        task == [call |-> c, idx |-> i, roll |-> r, start |-> pos,
                 loopLength |-> IF loops THEN LoopLength(active, pos) ELSE 0,
                 held |-> TRUE]
    IN IF ~rolls[r] \/ instruments[r] = 0 THEN acc
       ELSE IF active = <<>>
       THEN [acc EXCEPT !.psp[r] = pos, !.head[r] = pos, !.heads = @ \cup {r}]
       ELSE [acc EXCEPT
                !.psp[r] = pos,
                !.head[r] = pos,
                !.heads = @ \cup {r},
                !.parts = {[p EXCEPT !.inMap = p.inMap /\ p.roll # r] : p \in @}
                            \cup {part},
                !.raf = Animated(@, task),
                !.maxStopAt = Max(@, StopAt(active, pos, eff))]

RECURSIVE QueueBuild(_, _, _, _)
QueueBuild(c, qids, i, acc) ==
    IF i > Len(qids) THEN acc
    ELSE QueueBuild(c, qids, i + 1, QueueTurn(c, qids, i, acc))

\* playQueue from line 346 on, once every readiness await has resolved
playQueueResume(c) ==
    /\ UNCHANGED nOps
    /\ QueueCanGoOn(c)
    /\ QueueNextWait(c) > Len(WaitList(c))
    /\ LET built == QueueBuild(c, currentQueueIds, 1,
                        [parts |-> parts, raf |-> rafTasks, head |-> playhead,
                         psp |-> playbackStartPositions, heads |-> {},
                         maxStopAt |-> 0])
       IN /\ parts' = built.parts
          /\ rafTasks' = built.raf
          /\ playhead' = built.head
          /\ playbackStartPositions' = built.psp
          /\ tstate' = "started"
          /\ isPlaying' = TRUE
          /\ queueState' = [set |-> TRUE, ids |-> currentQueueIds]
          /\ stopCbs' = stopCbs \cup
                {[call |-> c, kind |-> "queue", roll |-> NoRoll,
                  ids |-> calls[c].ids, loops |-> FALSE, at |-> built.maxStopAt]}
          /\ stopScheduleId' = c
          /\ calls' = [calls EXCEPT ![c] = Done(calls[c])]
          /\ fx' = Fx("playQueueResume", c, built.heads, {"stop", "start"})
    /\ UNCHANGED <<profile, mapVars, modeVars, currentRollId>>
    /\ Collect(instr, disposed)

\* ------------------------------------------- transport and frame callbacks
\* the callback of playRollInternal finds another roll current, or
\* stopInternal returns at once: only the callback itself is gone
FireStopSkips(cb) == (cb.kind = "roll" /\ currentRollId # cb.roll) \/ StopIsNoop

\* the play calls after a stop callback ran: its own promise is resolved
CallsAfterFire(cb) ==
    LET cs == IF FireStopSkips(cb) THEN calls ELSE Orphaned(calls)
    IN IF cb.kind = "roll" THEN [cs EXCEPT ![cb.call] = Done(calls[cb.call])] ELSE cs

\* a scheduleOnce callback comes due: the earliest one on the timeline first
fireStop(cb) ==
    /\ UNCHANGED nOps
    /\ cb \in stopCbs
    /\ tstate = "started"
    /\ \A o \in stopCbs : cb.at <= o.at
    /\ IF FireStopSkips(cb)
       THEN /\ stopCbs' = stopCbs \ {cb}
            /\ fx' = Fx("fireStop", cb.call, {}, {})
            /\ UNCHANGED <<isPlaying, currentRollId, queueState, parts, rafTasks,
                           stopScheduleId, playbackStartPositions, tstate, playhead>>
       ELSE /\ stopInternal(TRUE, isQueueMode, currentQueueIds)
            /\ fx' = StopFx("fireStop", cb.call, TRUE, isQueueMode, currentQueueIds)
    /\ calls' = CallsAfterFire(cb)
    /\ UNCHANGED <<profile, mapVars, modeVars>>
    /\ Collect(instr, disposed)

\* an update closure that looks at isPlaying only
AnimationGoesOnWhilePlaying(t) == isPlaying

\* the update closure of scheduleAnimation goes on: the session is playing and
\* the roll is the current one, or one of the queue in queue mode
AnimationGoesOn(t) ==
    /\ isPlaying
    /\ isQueueMode \/ currentRollId = t.roll
    /\ ~isQueueMode \/ t.roll \in Range(currentQueueIds)

\* startPosition + elapsed, never wrapped
LivePositionUnwrapped(t, e) == t.start + e

\* startPosition + elapsed, wrapped into the loop when looping
LivePosition(t, e) ==
    IF t.loopLength > 0
    THEN t.start + (e % (t.loopLength * SixteenthsPerQuarter))
    ELSE t.start + e

\* the update closure runs on an animation frame
animationFrame(t) ==
    /\ UNCHANGED nOps
    /\ t \in rafTasks
    /\ IF AnimationGoesOn(t)
       THEN \E e \in ElapsedChoices :
               /\ playhead' = [playhead EXCEPT ![t.roll] = LivePosition(t, e)]
               /\ rafTasks' =
                    {[o EXCEPT !.held = o.held /\ o.roll # t.roll] : o \in rafTasks \ {t}}
                        \cup {[t EXCEPT !.held = TRUE]}
               /\ fx' = Fx("animationFrame", t.call, {t.roll}, {})
       ELSE /\ rafTasks' = rafTasks \ {t}
            /\ fx' = Fx("animationFrame", t.call, {}, {})
            /\ UNCHANGED playhead
    /\ UNCHANGED <<profile, registryVars, modeVars, calls, isPlaying,
                   currentRollId, queueState, parts, stopCbs, stopScheduleId,
                   playbackStartPositions, tstate>>

\* an event of a part comes due on the running transport and triggers the
\* instrument the part was built with
trigger(p) ==
    /\ UNCHANGED nOps
    /\ p \in parts
    /\ p.sched
    /\ tstate = "started"
    /\ fx' = [Fx("trigger", p.call, {}, {}) EXCEPT !.fired = {p}]
    /\ UNCHANGED <<profile, registryVars, sessVars, modeVars, calls>>

Next ==
    \/ \E r \in RollIds : registerRoll(r)
    \/ \E r \in RollIds : unregister(r)
    \/ \E r \in RollIds, k \in {"piano", "poly"} : setInstrument(r, k)
    \/ \E r \in RollIds, cfg \in LoopChoices : setLoop(r, cfg)
    \/ \E i \in InstrIds : samplerLoaded(i)
    \/ \E r \in RollIds : playRoll(r)
    \/ \E c \in CallIds : playRollResume(c)
    \/ \E ids \in QueueArgs : playQueue(ids)
    \/ \E c \in CallIds : playQueueAwait(c)
    \/ \E c \in CallIds : playQueueResume(c)
    \/ stop
    \/ dispose
    \/ \E cb \in stopCbs : fireStop(cb)
    \/ \E t \in rafTasks : animationFrame(t)
    \/ \E p \in parts : trigger(p)

Spec == Init /\ [][Next]_vars

\* ------------------------------------------------ one looping roll, any note
\* Roll A holds a single note drawn from the positions, durations and queue
\* starts below; it is registered, its sampler has loaded and setLoop has
\* given it a count of 3.  The play calls then compute its loop length.
NotePositions == {q * (SixteenthsPerQuarter \div 2) : q \in 0..(2 * MaxPos)}
NoteDurations == {1, 8, 15, 16, 24}
QueueStarts == {q * SixteenthsPerQuarter : q \in 0..MaxStart}

SingleNoteRolls ==
    {[notes |-> <<Note(p, d)>>, queueStart |-> q] :
        p \in NotePositions, d \in NoteDurations, q \in QueueStarts}

\* rolls of three notes, of which the queue start leaves some behind it, some
\* across it and some ahead of it
MixedRolls ==
    {[notes |-> <<Note(0, 16), Note(8, 24), Note(32, 8)>>, queueStart |-> q] :
        q \in QueueStarts}

InitLoop ==
    /\ profile \in {[A |-> x, B |-> ProfileOf("empty")] :
                        x \in SingleNoteRolls \cup MixedRolls}
    /\ playhead = [r \in RollIds |-> -1]
    /\ rolls = [r \in RollIds |-> r = "A"]
    /\ everRegistered = [r \in RollIds |-> r = "A"]
    /\ instruments = [r \in RollIds |-> IF r = "A" THEN 1 ELSE 0]
    /\ instr = [i \in InstrIds |-> IF i = 1 THEN "loaded" ELSE "unused"]
    /\ disposed = {}
    /\ loopConfigs = [r \in RollIds |-> IF r = "A" THEN LoopCfg(TRUE, FALSE, 3) ELSE NoCfg]
    /\ nOps = 2
    /\ isPlaying = FALSE
    /\ currentRollId = NoRoll
    /\ queueState = NoQueueState
    /\ parts = {}
    /\ rafTasks = {}
    /\ stopCbs = {}
    /\ stopScheduleId = 0
    /\ playbackStartPositions = [r \in RollIds |-> -1]
    /\ currentQueueIds = <<>>
    /\ isQueueMode = FALSE
    /\ tstate = "stopped"
    /\ calls = [c \in CallIds |-> NoCall]
    /\ fx = Fx("setLoop", 0, {}, {})

NextLoop ==
    \/ playRoll("A")
    \/ \E c \in CallIds : playRollResume(c)
    \/ playQueue(<<"A", "A">>)
    \/ \E c \in CallIds : playQueueResume(c)
    \/ \E cb \in stopCbs : fireStop(cb)
    \/ \E t \in rafTasks : animationFrame(t)

SpecLoop == InitLoop /\ [][NextLoop]_vars

\* ------------------------------------------ the awaits and the clock go on
\* Roll A is registered, its sampler has loaded and setLoop has made it loop
\* without end.  Every await that can resolve does, and the transport clock
\* reaches every callback on its timeline.
InitLive ==
    /\ profile = [A |-> ProfileOf("drum"), B |-> ProfileOf("late")]
    /\ playhead = [r \in RollIds |-> -1]
    /\ rolls = [r \in RollIds |-> r = "A"]
    /\ everRegistered = [r \in RollIds |-> r = "A"]
    /\ instruments = [r \in RollIds |-> IF r = "A" THEN 1 ELSE 0]
    /\ instr = [i \in InstrIds |-> IF i = 1 THEN "loaded" ELSE "unused"]
    /\ disposed = {}
    /\ loopConfigs = [r \in RollIds |->
            IF r = "A" THEN LoopCfg(TRUE, TRUE, 0) ELSE NoCfg]
    /\ nOps = 2
    /\ isPlaying = FALSE
    /\ currentRollId = NoRoll
    /\ queueState = NoQueueState
    /\ parts = {}
    /\ rafTasks = {}
    /\ stopCbs = {}
    /\ stopScheduleId = 0
    /\ playbackStartPositions = [r \in RollIds |-> -1]
    /\ currentQueueIds = <<>>
    /\ isQueueMode = FALSE
    /\ tstate = "stopped"
    /\ calls = [c \in CallIds |-> NoCall]
    /\ fx = Fx("setLoop", 0, {}, {})

NextLive ==
    \/ \E r \in RollIds : playRoll(r)
    \/ \E c \in CallIds : playRollResume(c)
    \/ \E ids \in QueueArgs : playQueue(ids)
    \/ \E c \in CallIds : playQueueResume(c)
    \/ stop
    \/ \E cb \in stopCbs : fireStop(cb)
    \/ \E t \in rafTasks : animationFrame(t)
    \/ \E p \in parts : trigger(p)

SpecLive ==
    /\ InitLive
    /\ [][NextLive]_vars
    /\ \A c \in CallIds : WF_vars(playRollResume(c))
    /\ \A c \in CallIds : WF_vars(playQueueResume(c))
    /\ WF_vars(\E cb \in stopCbs : fireStop(cb))
    /\ WF_vars(\E t \in rafTasks : animationFrame(t))

\* ================================================================== claims
\* the step just taken started a single-roll session
RollSessionStarted == fx.op = "playRollResume" /\ fx.tops # {}

\* the parts whose triggers are on the timeline
Scheduled == {p \in parts : p.sched}

\* C1: a playRoll call made while a single-roll session is playing disposes
\* that session's part at once; when the call then starts its own session the
\* coordinator is playing, currentRollId is the called roll, and the only part
\* left on the timeline, hence the only one that can still fire, is the new one.
C1_SessionExclusive ==
    /\ (fx.op = "playRoll" /\ fx.tops # {}) =>
            (parts = {} /\ stopCbs = {} /\ ~isPlaying /\ currentRollId = NoRoll)
    /\ (RollSessionStarted /\ fx.prev # NoRoll) =>
            /\ isPlaying
            /\ currentRollId # NoRoll
            /\ fx.heads = {currentRollId}
            /\ Scheduled = {p \in parts : p.call = fx.call /\ p.roll = currentRollId}
            /\ Cardinality(Scheduled) = 1
            /\ \A p \in Scheduled : p.inMap

\* playRoll("B"), called while roll A's session was playing, has started B's
C1_Witness ==
    /\ RollSessionStarted
    /\ fx.prev = "A"
    /\ currentRollId = "B"
    /\ isPlaying

\* C2: the parts on the timeline at any one time were all built by the same
\* play call, even when play calls overlap at their awaits.
C2_OneCallsParts ==
    \A p \in Scheduled, q \in Scheduled : p.call = q.call

\* the registered rolls the playing session holds a part of
SessionRolls == {r \in RollIds : rolls[r] /\ \E p \in CurrentParts : p.roll = r}

\* C3: a hard stop of a playing session, by stop() or by a due stop
\* callback, leaves every registered roll of the session with its playhead at
\* its own queue start.
C3_HardStopResets ==
    [][ (isPlaying /\ (stop \/ \E cb \in stopCbs : fireStop(cb)) /\ ~isPlaying')
            => \A r \in SessionRolls : playhead'[r] = getQueueStart(r) ]_vars

\* C4: when the joint stop callback of a queue session runs, isPlaying becomes
\* false and every roll of the queue that is still registered has its playhead
\* put at its own queue start.
C4_JointStopResets ==
    [][ \A cb \in stopCbs :
            (cb.kind = "queue" /\ fireStop(cb)) =>
                /\ ~isPlaying'
                /\ \A r \in Range(queueState.ids) :
                        rolls[r] => playhead'[r] = getQueueStart(r) ]_vars

\* the joint callback ran after frames moved the playheads, and two rolls are
\* back at their different queue starts
C4_Witness ==
    /\ fx.op = "fireStop"
    /\ fx.heads = {"A", "B"}
    /\ ~isPlaying
    /\ playhead["A"] = getQueueStart("A")
    /\ playhead["B"] = getQueueStart("B")
    /\ playhead["A"] # playhead["B"]

\* C5: stop() with no session playing leaves the session state as it is,
\* isPlaying false and currentRollId null, makes no transport call and moves
\* no playhead.
C5_StopIdempotent ==
    [][ (stop /\ ~isPlaying) =>
            /\ UNCHANGED sessVars
            /\ ~isPlaying' /\ currentRollId' = NoRoll
            /\ fx'.tops = {} /\ fx'.heads = {} ]_vars

\* stop() was called with a roll registered and nothing playing
C5_Witness ==
    /\ fx.op = "stop"
    /\ fx.tops = {}
    /\ ~isPlaying
    /\ \E r \in RollIds : rolls[r]

\* none of the roll's notes ends after its queue start
NoNoteSounds(r) ==
    \A i \in 1..Len(getNotes(r)) :
        getNotes(r)[i].position + getNotes(r)[i].duration <= getQueueStart(r)

\* C6: playRoll on a roll with no note ending after its queue start, with no
\* session playing, changes nothing at the call; when it goes on past its
\* awaits it puts the roll's playhead at the queue start and leaves isPlaying,
\* the transport, the parts, the frame tasks and the stop callbacks alone.
C6_NoNoteNoOp ==
    [][ /\ \A r \in RollIds :
              (playRoll(r) /\ ~isPlaying) => UNCHANGED sessVars
        /\ \A c \in CallIds :
              (playRollResume(c) /\ NoNoteSounds(calls[c].roll)) =>
                  /\ UNCHANGED <<isPlaying, tstate, parts, rafTasks, stopCbs,
                                 stopScheduleId, currentRollId>>
                  /\ playhead'[calls[c].roll] = getQueueStart(calls[c].roll) ]_vars

\* playRoll went past its awaits on a roll whose only note lies before the
\* queue start, and nothing is playing
C6_Witness ==
    /\ fx.op = "playRollResume"
    /\ fx.tops = {}
    /\ \E r \in fx.heads :
          /\ getNotes(r) # <<>>
          /\ NoNoteSounds(r)
          /\ playhead[r] = getQueueStart(r)
    /\ ~isPlaying
    /\ parts = {}

\* a session with a stop callback on the timeline, started by a playRoll with
\* a finite loop count or by a playQueue, and no call left for the caller to make
FiniteSessionOn == isPlaying /\ stopCbs # {} /\ nOps = MaxOps

\* every part disposed and every frame the coordinator holds cancelled
TornDown == ~isPlaying /\ parts = {} /\ AnimationsCleared(rafTasks) = rafTasks

\* C7: a session that has a stop callback ends by itself: with the awaits
\* resolving and the transport running on, without a further call isPlaying
\* becomes false with every part disposed and every held frame cancelled.
C7_FiniteSessionsEnd == [](FiniteSessionOn => <>TornDown)

\* offset plus duration of the roll's last sounding note, as a transport time
LastEventEnd(r) ==
    SeqMax([i \in 1..Len(getNotes(r)) |->
              IF NoteEnd(getNotes(r)[i]) > getQueueStart(r)
              THEN (Max(0, getNotes(r)[i].position - getQueueStart(r))
                        + Max(getNotes(r)[i].duration, 1)) * quarterNoteSeconds
              ELSE 0], 0)

TwoQuarterNotes == <<Note(0, SixteenthsPerQuarter), Note(SixteenthsPerQuarter, SixteenthsPerQuarter)>>

\* every stop callback of a non-looping playRoll session is at the end of the
\* last event plus 0.1 s (two quarter notes from queue start 0: two quarter
\* notes plus 0.1 s), and isPlaying is true while it is on the timeline
NonLoopingDeadlines ==
    \A cb \in stopCbs :
        (cb.kind = "roll" /\ ~cb.loops) =>
            /\ cb.at = LastEventEnd(cb.roll) + Ticks(StopGraceMs)
            /\ (getNotes(cb.roll) = TwoQuarterNotes /\ getQueueStart(cb.roll) = 0) =>
                    cb.at = 2 * SixteenthsPerQuarter * quarterNoteSeconds + Ticks(100)
            /\ isPlaying

\* C8 as stated: the stop callback of a non-looping playRoll session is at the
\* end of the last event plus 0.1 s, isPlaying is true until it runs, and when
\* it runs isPlaying becomes false and the roll's playhead is at its queue
\* start, the roll registered or not.
C8_AnyRoll ==
    /\ []NonLoopingDeadlines
    /\ [][ \A cb \in stopCbs :
            (cb.kind = "roll" /\ ~cb.loops /\ fireStop(cb)) =>
                /\ ~isPlaying'
                /\ playhead'[cb.roll] = getQueueStart(cb.roll) ]_vars

\* C8: the stop callback of a non-looping playRoll session is at the end of
\* the last event plus 0.1 s, isPlaying is true until it runs, and when it
\* runs isPlaying becomes false and the roll, if it is still registered, has
\* its playhead put at its queue start.
C8_NonLoopingDeadline ==
    /\ []NonLoopingDeadlines
    /\ [][ \A cb \in stopCbs :
            (cb.kind = "roll" /\ ~cb.loops /\ fireStop(cb)) =>
                /\ ~isPlaying'
                /\ rolls[cb.roll] => playhead'[cb.roll] = getQueueStart(cb.roll) ]_vars

\* the callback of a non-looping session of the two-quarter-note roll ran after
\* a frame had moved the playhead
C8_Witness ==
    /\ fx.op = "fireStop"
    /\ fx.heads = {"A"}
    /\ getNotes("A") = TwoQuarterNotes
    /\ ~isQueueMode
    /\ ~isPlaying
    /\ loopConfigs["A"] = DefaultCfg
    /\ playhead["A"] = 0

\* the stop deadline of a roll in a queue, from its own notes, queue start and
\* loop config
StopDeadline(r) ==
    StopAt(ActiveNotes(getNotes(r), getQueueStart(r)), getQueueStart(r),
           QueueLoopCount(loopConfigs[r]))

\* C9: the stop callback playQueue(["A", "B"]) schedules, both rolls registered
\* and with notes to play, is the only one and is at the later of the two
\* rolls' own stop deadlines.
C9_JointDeadline ==
    fx.op = "playQueueResume" =>
        \A cb \in stopCbs :
            (/\ cb.call = fx.call
             /\ cb.ids = <<"A", "B">>
             /\ \A r \in {"A", "B"} : rolls[r] /\ ~NoNoteSounds(r))
            => /\ cb.at = Max(StopDeadline("A"), StopDeadline("B"))
               /\ stopCbs = {cb}

\* the one note of a roll, and the loop length a frame task of the roll carries
OnlyNote(r) == getNotes(r)[1]
ShortSingleNote(r) ==
    /\ Len(getNotes(r)) = 1
    /\ OnlyNote(r).duration < SixteenthsPerQuarter
    /\ IsActive(OnlyNote(r), getQueueStart(r))

\* C10 as stated: a roll whose only note is active and shorter than a quarter
\* note loops over exactly one quarter note, wherever the note lies.
C10_AnyPosition ==
    \A t \in rafTasks : ShortSingleNote(t.roll) => t.loopLength = 1

\* C10: a roll whose only note is active, shorter than a quarter note and ends
\* at most one quarter note after the queue start loops over exactly one
\* quarter note.
C10_LoopLengthOne ==
    \A t \in rafTasks :
        (ShortSingleNote(t.roll)
            /\ NoteEnd(OnlyNote(t.roll)) <= getQueueStart(t.roll) + SixteenthsPerQuarter)
        => t.loopLength = 1

\* a short note that straddles the queue start is looping over one quarter note
C10_Witness ==
    \E t \in rafTasks :
        /\ ShortSingleNote(t.roll)
        /\ OnlyNote(t.roll).position < getQueueStart(t.roll)
        /\ t.loopLength = 1

\* ----------------------------------------------------------------- C11
\* the roll of the scenario: one note {position 0, duration 0.5}, queue start 0
HalfNoteRoll == [notes |-> <<Note(0, 8)>>, queueStart |-> 0]

\* the stop callbacks and parts of a play call on roll A looped three times
ThreeLoopCbs == {cb \in stopCbs : cb.kind = "roll" /\ cb.roll = "A" /\ cb.loops}

ThreeLoopParts == {p \in Scheduled : p.roll = "A" /\ p.count = 3}

\* C11 as it is written: with loop {enabled, count 3}, one note {0, 0.5}, queue
\* start 0 and 120 BPM the loop is 0.5 s long, three loops are 1.5 s, and the
\* stop callback is due at 0.27 s, within the first iteration.
C11_FirstIterationDeadline ==
    profile["A"] = HalfNoteRoll =>
        /\ \A p \in ThreeLoopParts : p.loopEnd = Ticks(500) /\ p.count * p.loopEnd = Ticks(1500)
        /\ \A cb \in ThreeLoopCbs : cb.at = Ticks(270) /\ cb.at < Ticks(500)

\* C11, amended: with loop {enabled, count 3}, one note {0, 0.5}, queue start 0
\* and 120 BPM the loop is 0.5 s long, three loops are 1.5 s, and the stop
\* callback is due at min(0.25 + 2 * 0.5 + 0.02, 1.499) = 1.27 s, within the
\* third iteration and before the 1.5 s boundary.
C11_ThirdIterationDeadline ==
    profile["A"] = HalfNoteRoll =>
        /\ \A p \in ThreeLoopParts : p.loopEnd = Ticks(500) /\ p.count * p.loopEnd = Ticks(1500)
        /\ \A cb \in ThreeLoopCbs :
               /\ cb.at = Ticks(1270)
               /\ cb.at > 2 * Ticks(500)
               /\ cb.at < 3 * Ticks(500)

C11_Witness ==
    /\ profile["A"] = HalfNoteRoll
    /\ fx.op = "playRollResume"
    /\ ThreeLoopCbs # {}
    /\ ThreeLoopParts # {}

\* ----------------------------------------------------------------- C12
\* the parts with a finite loop count above 1 that the step just taken put on
\* the timeline
FiniteLoopsStarted ==
    {p \in Scheduled : /\ fx.op \in {"playRollResume", "playQueueResume"}
                       /\ p.call = fx.call
                       /\ p.loop
                       /\ p.count > 1}

\* the loop boundary N * L of a looping part
LoopBoundary(p) == p.count * p.loopEnd

\* the stop deadline a looping part's roll gets from its own notes
OwnDeadline(p) ==
    Min(LastEventEnd(p.roll) + (p.count - 1) * p.loopEnd + Ticks(LoopTailMs),
        LoopBoundary(p) - Ticks(LoopGuardMs))

\* C12: a roll put on the timeline with a finite loop count N > 1 and loop
\* length L has the stop deadline min(lastEventEnd + (N-1)*L + 0.02, N*L - 0.001),
\* which is before N*L, and the session's stop callback is due before N*L, so
\* that the part is stopped before an (N+1)-th repetition starts.
C12_NoExtraRepetition ==
    \A p \in FiniteLoopsStarted :
        /\ OwnDeadline(p) < LoopBoundary(p)
        /\ \E cb \in stopCbs :
              /\ cb.call = p.call
              /\ cb.at >= OwnDeadline(p)
              /\ cb.at < LoopBoundary(p)

\* ----------------------------------------------------------------- C13
\* the parts the step just taken put on the timeline for a queue
QueuePartsStarted == {p \in Scheduled : fx.op = "playQueueResume" /\ p.call = fx.call}

\* min(configured count, 10), Infinity included; 1 with looping disabled
CappedCount(cfg) ==
    IF ~cfg.enabled THEN 1
    ELSE IF cfg.infinite \/ cfg.count > 10 THEN 10
    ELSE cfg.count

\* every roll of a queue gets the capped loop count and the queue gets a
\* stop callback
QueueCountsCapped ==
    \A p \in QueuePartsStarted :
        /\ p.count = CappedCount(loopConfigs[p.roll])
        /\ p.count <= 10
        /\ p.loop = (p.count > 1)
        /\ \E cb \in stopCbs : cb.call = p.call /\ cb.kind = "queue"

\* C13: in a queue session a roll with looping enabled gets the loop count
\* min(configured count, 10), Infinity included, and a roll with looping
\* disabled gets 1; the queue gets a joint stop callback, and it is due before
\* any looping roll has played ten loops, so no roll repeats more than 10 times.
C13_QueueLoopCap ==
    /\ QueueCountsCapped
    /\ \A p \in QueuePartsStarted :
          p.loop => \E cb \in stopCbs : cb.call = p.call /\ cb.at < QueueLoopCap * p.loopEnd

\* ----------------------------------------------------------------- C14
\* a single-roll session with an infinite loop count is on
InfiniteSession ==
    /\ isPlaying
    /\ \E p \in CurrentParts : p.sched /\ p.loop /\ p.count = 0 /\ p.roll = currentRollId

\* the step just taken started a single-roll session with an infinite loop count
InfiniteSessionStarted ==
    /\ RollSessionStarted
    /\ \E p \in CurrentParts : p.call = fx.call /\ p.loop /\ p.count = 0

\* C14: starting a single-roll session whose loop count is Infinity schedules
\* no stop callback, and the session never ends on its own: it stops playing
\* only in a step that is a call of the application that stops it, stop()
\* itself or the stop that dispose() and a new play call begin with, never in
\* a step of the transport or of an animation frame.
C14_InfiniteUntilStop ==
    /\ [](InfiniteSessionStarted => stopCbs = {})
    /\ [][(InfiniteSession /\ ~isPlaying') =>
            fx'.op \in {"stop", "dispose", "playRoll", "playQueue"}]_vars

\* ----------------------------------------------------------------- C15
\* nothing of a session is left: no part, no frame task, no stop callback, no
\* start position, not playing, no current roll
NothingLeft ==
    /\ parts = {}
    /\ rafTasks = {}
    /\ stopCbs = {}
    /\ \A r \in RollIds : playbackStartPositions[r] = -1
    /\ ~isPlaying
    /\ currentRollId = NoRoll

\* C15: in the state stop() returns in, whatever happened before, no part is
\* live, no animation frame task is pending, no stop callback is pending, the
\* start-position map is empty, isPlaying is false and currentRollId is null.
C15_StopLeavesNothing == fx.op = "stop" => NothingLeft

\* ----------------------------------------------------------------- C16
\* the registry, the instrument map and the loop-config map are empty
MapsEmpty ==
    \A r \in RollIds : ~rolls[r] /\ instruments[r] = 0 /\ loopConfigs[r] = NoCfg

\* C16: in the state dispose() returns in, isPlaying is false, no part, no
\* animation frame task and no stop callback remains, the three maps are
\* empty, and the instruments dispose() disposed are exactly those the
\* instrument map held.
C16_DisposeLeavesNothing ==
    /\ [](fx.op = "dispose" =>
            /\ ~isPlaying
            /\ parts = {}
            /\ rafTasks = {}
            /\ stopCbs = {}
            /\ MapsEmpty)
    /\ [][dispose => fx'.disposed = MapInstr(RollIds)]_vars

\* ----------------------------------------------------------------- C17
\* the entries of every roll but r in the three maps stay as they are
OthersKept(r) ==
    \A o \in RollIds \ {r} :
        /\ rolls'[o] = rolls[o]
        /\ instruments'[o] = instruments[o]
        /\ loopConfigs'[o] = loopConfigs[o]
        /\ (instruments[o] # 0 /\ instruments[o] \notin disposed) =>
                instruments[o] \notin disposed'

\* C17: registerRoll for an id that is not registered stores the registration,
\* creates one new piano instrument for the id and sets its loop config to
\* {enabled: false, count: 1}; the unregister function it returned removes the
\* id from the registry, disposes the instrument the map holds for it and
\* removes its loop config; both leave every other roll's registration,
\* instrument and loop config as they were.
C17_RegisterUnregister ==
    [][\A r \in RollIds :
        /\ (registerRoll(r) /\ ~rolls[r]) =>
              /\ rolls'[r]
              /\ instruments'[r] # 0
              /\ instr'[instruments'[r]] = CreatedState("piano")
              /\ instruments'[r] \notin disposed'
              /\ fx'.disposed = {}
              /\ loopConfigs'[r] = DefaultCfg
              /\ OthersKept(r)
        /\ unregister(r) =>
              /\ ~rolls'[r]
              /\ instruments'[r] = 0
              /\ fx'.disposed = MapInstr({r})
              /\ \A i \in MapInstr({r}) : instr'[i] # "unused" => i \in disposed'
              /\ loopConfigs'[r] = NoCfg
              /\ OthersKept(r) ]_vars

\* roll A was unregistered while something still held its instrument and roll
\* B was registered: A's instrument is disposed, B's entries are still there
C17_Witness ==
    /\ fx.op = "unregister"
    /\ fx.disposed # {}
    /\ fx.disposed \subseteq disposed
    /\ ~rolls["A"] /\ instruments["A"] = 0 /\ loopConfigs["A"] = NoCfg
    /\ rolls["B"] /\ instruments["B"] # 0 /\ loopConfigs["B"] = DefaultCfg

\* ----------------------------------------------------------------- C18
\* the instruments that are still around, are not in the instrument map and
\* have not been disposed
Leaked == {i \in InstrIds : instr[i] # "unused" /\ i \notin MapInstr(RollIds) /\ i \notin disposed}

\* C18: registerRoll for an id that is already registered replaces the
\* registration and the instrument and resets the loop config to
\* {enabled: false, count: 1} without disposing the instrument the map held;
\* no later step disposes it either: every step disposes only instruments
\* that the map holds, so an instrument that has left the map undisposed
\* stays undisposed for as long as anything holds it.
C18_ReRegisterLeaks ==
    /\ [][\A r \in RollIds :
            (registerRoll(r) /\ rolls[r]) =>
                /\ rolls'[r]
                /\ instruments'[r] # 0
                /\ instr'[instruments'[r]] = CreatedState("piano")
                /\ loopConfigs'[r] = DefaultCfg
                /\ fx'.disposed = {}
                /\ fx'.dropped = MapInstr({r})
                /\ disposed' \subseteq disposed ]_vars
    /\ [][ /\ fx'.disposed \subseteq MapInstr(RollIds)
           /\ \A i \in Leaked : i \notin MapInstr(RollIds)' => i \notin disposed' ]_vars

\* dispose() has run and an instrument that a re-registration dropped from the
\* map is still held by a play call, undisposed
C18_Witness ==
    /\ fx.op = "dispose"
    /\ Leaked # {}

\* ----------------------------------------------------------------- C19
\* C19: setInstrument(id, kind) for an id that is not registered is a no-op:
\* it creates no instrument, disposes none, and leaves the roll registry, the
\* instrument map and the loop-config map as they were.
C19_SetInstrumentUnknownId ==
    [][\A r \in RollIds, k \in {"piano", "poly"} :
        (setInstrument(r, k) /\ ~rolls[r]) =>
            /\ rolls' = rolls
            /\ instruments' = instruments
            /\ loopConfigs' = loopConfigs
            /\ instr' = instr
            /\ fx'.disposed = {} ]_vars

\* ----------------------------------------------------------------- C20
\* C20: setLoop(id, config) for an id that is not registered is a no-op that
\* leaves the loop-config map as it was; for a registered id it replaces the
\* id's stored loop config with the given one, whatever it holds, and leaves
\* the other ids' configs alone.
C20_SetLoop ==
    [][\A r \in RollIds, cfg \in LoopChoices :
        setLoop(r, cfg) =>
            IF rolls[r]
            THEN loopConfigs' = [loopConfigs EXCEPT ![r] = cfg]
            ELSE loopConfigs' = loopConfigs ]_vars

\* ----------------------------------------------------------------- C21
\* rolls.get(id) or instruments.get(id) of playRollInternal finds nothing
NothingToPlay(r) == ~rolls[r] \/ instruments[r] = 0

\* C21: playRoll(id) for an id that has no registration or no instrument
\* returns at its lookups: no part is built, the transport is not started, no
\* stop callback is scheduled, no setLivePlayhead call is made and nothing of
\* the call is left to run; when no session was playing, isPlaying stays false,
\* currentRollId stays null and the rest of the session state is untouched.
C21_UnknownRollNoPlayback ==
    [][\A r \in RollIds :
        (playRoll(r) /\ NothingToPlay(r)) =>
            /\ parts' \subseteq parts \cup Cancelled(parts)
            /\ "start" \notin fx'.tops
            /\ tstate' # "started" \/ tstate = "started"
            /\ stopCbs' \subseteq stopCbs
            /\ fx'.heads = {}
            /\ playhead' = playhead
            /\ \A c \in CallIds : calls'[c].pc = "await" => calls[c] = calls'[c]
            /\ ~isPlaying =>
                  /\ ~isPlaying'
                  /\ currentRollId' = NoRoll
                  /\ UNCHANGED sessVars ]_vars

\* playRoll was called for roll B, not registered, while roll A was registered
\* and nothing was playing: the call is over and nothing plays
C21_Witness ==
    /\ fx.op = "playRoll"
    /\ fx.tops = {}
    /\ rolls["A"] /\ ~rolls["B"]
    /\ \A c \in CallIds : calls[c].pc # "await"
    /\ ~isPlaying
    /\ currentRollId = NoRoll
    /\ parts = {}

\* ----------------------------------------------------------------- C22
\* what a resuming playQueue call builds: the rolls of its parts and of its
\* frame tasks, and the rolls it calls setLivePlayhead on
BuiltFor(c) ==
    {p.roll : p \in {q \in parts' : q.call = c}}
        \cup {t.roll : t \in {u \in rafTasks' : u.call = c}}
        \cup fx'.heads

\* C22: a playQueue call builds parts and frame tasks and sets playheads only
\* for the ids that were registered when it was called; when none of its ids
\* is registered the call is over at once: nothing of it is left to run, the
\* transport is not started, no stop callback is scheduled and isPlaying is
\* false afterwards.
C22_OnlyRegisteredIds ==
    [][ /\ \A c \in CallIds :
              playQueueResume(c) => BuiltFor(c) \subseteq Range(calls[c].own)
        /\ \A ids \in QueueArgs :
              (playQueue(ids) /\ Registered(ids) = <<>>) =>
                  /\ \A c \in CallIds : calls'[c].pc = "await" => calls[c] = calls'[c]
                  /\ "start" \notin fx'.tops
                  /\ stopCbs' \subseteq stopCbs
                  /\ fx'.heads = {}
                  /\ ~isPlaying' ]_vars

\* ----------------------------------------------------------------- C23
\* C23: the promise playRoll returned is settled once playRollInternal has got
\* past its awaits: in the state in which the session has been scheduled, or
\* the roll found to have no active notes, the call is over and does not wait
\* for the stop callback.
C23_PromiseSettlesWhenScheduled ==
    fx.op = "playRollResume" => calls[fx.call].pc # "pending"

\* ----------------------------------------------------------------- C24
\* a queue session is playing
QueueSessionOn == isPlaying /\ queueState.set

\* C24: while a queue session is playing currentRollId is null, and when
\* currentRollId is not null the coordinator is playing and the parts on the
\* timeline are those of the roll it names.
C24_CurrentRollSingleMode ==
    /\ QueueSessionOn => currentRollId = NoRoll
    /\ currentRollId # NoRoll =>
          /\ isPlaying
          /\ Scheduled # {}
          /\ \A p \in Scheduled : p.roll = currentRollId

\* ----------------------------------------------------------------- C25
\* C25: a playRoll or playQueue call made while a session is playing tears it
\* down without a setLivePlayhead call: every roll's playhead is what it was,
\* so a roll of the old session keeps the position its last frame gave it.
C25_SoftStopKeepsPlayheads ==
    [][ (isPlaying /\ ((\E r \in RollIds : playRoll(r)) \/ (\E ids \in QueueArgs : playQueue(ids)))) =>
            /\ ~isPlaying'
            /\ "stop" \in fx'.tops
            /\ fx'.heads = {}
            /\ playhead' = playhead ]_vars

\* a play call replaced a session in which a frame had moved roll A's playhead
\* off its queue start, and the playhead is still there
C25_Witness ==
    /\ fx.op \in {"playRoll", "playQueue"}
    /\ "stop" \in fx.tops
    /\ rolls["A"]
    /\ playhead["A"] \notin {-1, getQueueStart("A")}

\* ----------------------------------------------------------------- C26
\* the step just taken was a hard stop that found something to stop
HardStopRan == fx.op \in {"stop", "fireStop"} /\ "stop" \in fx.tops

\* C26: a hard stop clears the queue-mode flag and the active id list last:
\* the playheads are reset with the flags as the session left them, so stop()
\* resets the rolls that the flags name when it is called, and once a hard
\* stop has run isQueueMode is false and the active id list is empty.
C26_FlagsClearedLast ==
    /\ [][(stop /\ ~StopIsNoop) =>
            fx'.heads = StopHeads(TRUE, isQueueMode, currentQueueIds)]_vars
    /\ [](HardStopRan => (~isQueueMode /\ currentQueueIds = <<>>))

\* ----------------------------------------------------------------- C27
\* the roll of a frame task is in the active set
InActiveSet(r) ==
    IF isQueueMode THEN r \in Range(currentQueueIds) ELSE currentRollId = r

\* C27: an animation tick for roll r calls r's setLivePlayhead and re-arms
\* itself only if isPlaying is true and r is in the active set (currentRollId
\* in single-roll mode, the queue id list in queue mode); otherwise it changes
\* no playhead and is gone, so while nothing is playing no tick moves a playhead.
C27_TickOnlyWhileActive ==
    [][\A t \in rafTasks :
        animationFrame(t) =>
            /\ (isPlaying /\ InActiveSet(t.roll)) =>
                  /\ fx'.heads = {t.roll}
                  /\ \E u \in rafTasks' : u.roll = t.roll /\ u.call = t.call /\ u.held
            /\ ~(isPlaying /\ InActiveSet(t.roll)) =>
                  /\ fx'.heads = {}
                  /\ playhead' = playhead
                  /\ rafTasks' = rafTasks \ {t}
            /\ ~isPlaying => playhead' = playhead ]_vars

\* a tick ran after the session had been torn down: roll A's playhead is
\* still where the last tick of the session had put it
C27_Witness ==
    /\ fx.op = "animationFrame"
    /\ fx.heads = {}
    /\ ~isPlaying
    /\ rolls["A"]
    /\ playhead["A"] \notin {-1, getQueueStart("A")}

\* ----------------------------------------------------------------- C28
\* C28: at most one animation frame task is pending per roll, and every
\* pending task is the one rafIds holds for its roll, so that cancelling by
\* roll id cancels it.
C28_OneTaskPerRoll ==
    /\ \A t \in rafTasks : t.held
    /\ \A t, u \in rafTasks : t.roll = u.roll => t = u

\* ----------------------------------------------------------------- C29
\* C29: at most one stop callback is pending on the transport and it is the
\* one stopScheduleId holds; a playRoll call with a finite loop count and a
\* playQueue call each leave exactly one, their own, when they start their
\* session, the previous session's having been cancelled.
C29_OneStopCallback ==
    /\ Cardinality(stopCbs) <= 1
    /\ \A cb \in stopCbs : stopScheduleId = cb.call
    /\ (fx.op = "playQueueResume"
            \/ (RollSessionStarted /\ \E p \in CurrentParts : p.call = fx.call /\ p.count > 0))
          => \E cb \in stopCbs : stopCbs = {cb} /\ cb.call = fx.call

\* ----------------------------------------------------------------- C30
\* the frame tasks of the session that is playing: requested by the call that
\* built the live part of their roll
SessionTasks ==
    {t \in rafTasks : \E p \in CurrentParts : p.roll = t.roll /\ p.call = t.call /\ p.idx = t.idx}

\* the live part a session task belongs to
PartOf(t) == CHOOSE p \in CurrentParts : p.roll = t.roll /\ p.call = t.call /\ p.idx = t.idx

\* elapsed quarters wrapped into a loop of len quarters, in sixteenths
Wrapped(e, len) == e - (e \div (len * SixteenthsPerQuarter)) * (len * SixteenthsPerQuarter)

SoundingNotes(r) ==
    {i \in 1..Len(getNotes(r)) :
        getNotes(r)[i].position + getNotes(r)[i].duration > getQueueStart(r)}

\* the place of note i among the sounding notes of r
PlaceOf(r, i) == Cardinality({j \in SoundingNotes(r) : j <= i})

\* C31: a part holds exactly one event for each note of its roll with
\* position + duration > playbackStart, in the order of the notes, and none
\* for another note; the time of the event is max(0, position - playbackStart)
\* quarter notes, so it is 0 for a note that lies across the start and never
\* negative.
C31_OneEventPerActiveNote ==
    \A p \in parts :
        LET r == p.roll
            ns == getNotes(r)
            st == getQueueStart(r)
        IN /\ Len(p.events) = Cardinality(SoundingNotes(r))
           /\ \A i \in SoundingNotes(r) :
                LET ev == p.events[PlaceOf(r, i)]
                IN /\ ev.time = (IF ns[i].position > st THEN ns[i].position - st ELSE 0)
                                    * quarterNoteSeconds
                   /\ ev.time >= 0
                   /\ ns[i].position <= st => ev.time = 0

\* a part of the three-note roll played from queue start 1: the first note is
\* left out, the second lies across the start, the third is ahead of it
C31_Witness ==
    /\ getNotes("A") = <<Note(0, 16), Note(8, 24), Note(32, 8)>>
    /\ getQueueStart("A") = 16
    /\ \E p \in Scheduled :
          /\ p.roll = "A"
          /\ Len(p.events) = 2
          /\ p.events[1].time = 0
          /\ p.events[2].time = 16 * quarterNoteSeconds

\* ----------------------------------------------------------------- C32
\* C32: every part on the timeline triggers an instrument whose readiness
\* await has resolved: a synth, or a sampler that has loaded.
C32_PartsOfReadyInstruments ==
    \A p \in Scheduled : instr[p.instr] = "loaded"

\* ----------------------------------------------------------------- C33
\* the end of the last note of the final repetition of a looping part
FinalRepetitionEnd(p) == LastEventEnd(p.roll) + (p.count - 1) * p.loopEnd

\* the stop callbacks of the call that put a looping part on the timeline
CallbacksOf(p) == {cb \in stopCbs : cb.call = p.call}

C34_StopCancelsSuspendedCalls ==
    [][ (fx.op = "stop" /\ \E c \in CallIds : playRollResume(c) \/ playQueueResume(c)) =>
            /\ ~isPlaying'
            /\ parts' = parts
            /\ rafTasks' = rafTasks
            /\ stopCbs' = stopCbs ]_vars

\* ----------------------------------------------------------------- C35
\* C35: every part on the timeline is bound to an instrument that has not
\* been disposed, and a part that fires triggers one that has not been
\* disposed.
C35_NoDisposedInstrumentTriggered ==
    /\ \A p \in Scheduled : p.instr \notin disposed
    /\ \A p \in fx.fired : p.instr \notin disposed

\* ----------------------------------------------------------------- C36
\* the session that is playing was started by another call than cb's: parts
\* are live and none of them was built by the call that scheduled cb
SessionOfAnotherCall(cb) ==
    /\ isPlaying
    /\ CurrentParts # {}
    /\ \A p \in CurrentParts : p.call # cb.call

\* C36: a stop callback that fires when the session of its own call has been
\* replaced by another call's changes nothing: the session goes on playing
\* with its parts, frame tasks and playheads as they were.
C36_StaleCallbackHarmless ==
    [][\A cb \in stopCbs :
        (fireStop(cb) /\ SessionOfAnotherCall(cb)) =>
            /\ isPlaying'
            /\ parts' = parts
            /\ rafTasks' = rafTasks
            /\ playhead' = playhead
            /\ currentRollId' = currentRollId ]_vars

\* ----------------------------------------------------------------- C37
\* C37: every part that has been created and not disposed is the one that
\* currentParts holds under its roll id, and there is at most one per roll
\* id, so that the loop of a hard stop over currentParts disposes them all.
C37_EveryPartInMap ==
    /\ \A p \in parts : p.inMap
    /\ \A p, q \in parts : p.roll = q.roll => p = q

\* ----------------------------------------------------------------- C38
\* C38: whenever isPlaying is true a part is live, and a playQueue call that
\* builds no part, its rolls having no active note, starts no session: it does
\* not start the transport and does not set isPlaying.
C38_PlayingMeansParts ==
    /\ [](isPlaying => CurrentParts # {})
    /\ [][\A c \in CallIds :
            (playQueueResume(c) /\ \A p \in parts' : p.call # c) =>
                /\ "start" \notin fx'.tops
                /\ isPlaying' = isPlaying ]_vars

\* ----------------------------------------------------------------- C39
\* C39: an unregister function removes only the registration that returned
\* it: when an id has just been registered a second time and an unregister
\* function of that id, the first registration's, is called, the new
\* registration, its instrument and its loop config stay as they are and
\* nothing is disposed.
C39_StaleUnregisterHarmless ==
    [][\A r \in RollIds :
        (fx.op = "registerRoll" /\ fx.replaced = r /\ unregister(r)) =>
            /\ rolls'[r]
            /\ instruments'[r] = instruments[r]
            /\ loopConfigs'[r] = loopConfigs[r]
            /\ fx'.disposed = {} ]_vars

\* ----------------------------------------------------------------- C40
\* C40: after a roll's unregister function has been called the coordinator
\* never calls that roll's setLivePlayhead again: no step of a roll that was
\* registered once and is registered neither before nor after the step
\* writes the roll's playhead.
C40_NoPlayheadAfterUnregister ==
    [][\A r \in RollIds :
        (everRegistered[r] /\ ~rolls[r] /\ ~rolls'[r]) =>
            r \notin fx'.heads ]_vars

====
